---- MODULE Spec2Model ----
(***************************************************************************)
(* A state-machine model of the matching algorithms of                     *)
(*   src/src/matching/algorithms/stable_marriage.py   (stable_marriage)    *)
(*   src/src/matching/algorithms/hospital_resident.py (hospital_resident,  *)
(*        hr_resident_optimal, hr_hospital_optimal and their helpers).     *)
(*                                                                         *)
(* A Python dict is a function; its insertion order is the order of        *)
(* KeyOrder restricted to its keys.  A Python list is a sequence; Python's *)
(* 0-based position i is position i+1 here.  The preference dicts are      *)
(* mutated in place by the code, so they are variables; the arg_*          *)
(* variables keep the value each argument had when the call was made.      *)
(***************************************************************************)
EXTENDS Naturals, Sequences, FiniteSets, TLC

VARIABLES
    optimal,             \* the `optimal` argument of the entry operation
    pc,                  \* position of the call in the code
    error,               \* the exception that ended the call, or None
    matching,            \* the local `matching` dict
    suitor_prefs,        \* stable_marriage: local name suitor_prefs
    reviewer_prefs,      \* stable_marriage: local name reviewer_prefs
    suitors,             \* stable_marriage: the list (queue) `suitors`
    arg_suitor_prefs,    \* first argument of stable_marriage, as passed
    arg_reviewer_prefs,  \* second argument of stable_marriage, as passed
    hospital_prefs,      \* hospital_resident: hospital_prefs
    resident_prefs,      \* hospital_resident: resident_prefs
    capacities,          \* hospital_resident: capacities
    free_residents,      \* hr_resident_optimal: free_residents
    free_hospitals,      \* hr_hospital_optimal: free_hospitals
    hospital,            \* loop local `hospital`
    resident,            \* loop local `resident`
    arg_hospital_prefs,  \* first argument of hospital_resident, as passed
    arg_resident_prefs   \* second argument of hospital_resident, as passed

sm_vars == <<suitor_prefs, reviewer_prefs, suitors,
             arg_suitor_prefs, arg_reviewer_prefs>>
hr_vars == <<hospital_prefs, resident_prefs, capacities, free_residents,
             free_hospitals, hospital, resident,
             arg_hospital_prefs, arg_resident_prefs>>
vars == <<optimal, pc, error, matching, sm_vars, hr_vars>>

-----------------------------------------------------------------------------
(* The universe of players and inputs.                                     *)

\* Python's None: the unmatched sentinel of stable_marriage, "no exception".
None == "None"

\* The players of the stable-marriage tests.
Suitors == {"A", "B", "C"}
Reviewers == {"D", "E", "F"}

\* The players of the hospital-resident instances.
Residents == {"A", "B", "C"}
Hospitals == {"X", "Y"}

\* Largest capacity a hospital is given.
MaxCapacity == 2

\* Insertion order of every dict: the players in this order.  Renaming the
\* players of one side carries an instance with another key order to one
\* with this order, and every list of preferences is enumerated.
KeyOrder == <<"A", "B", "C", "D", "E", "F", "X", "Y", "Z">>

\* Values of `optimal`; OtherOption stands for any unrecognised value.
OtherOption == "other"
SMOptions == {"suitor", "reviewer", OtherOption}
HROptions == {"resident", "hospital", OtherOption}

-----------------------------------------------------------------------------
(* Python list and dict operations.                                        *)

\* x in s
In(x, s) == \E i \in DOMAIN s : s[i] = x

\* s.index(x) + 1, for x in s: the first position holding x.
Index(s, x) == CHOOSE i \in DOMAIN s : s[i] = x /\ \A j \in 1..(i - 1) : s[j] # x

\* s.remove(x), for x in s: s without its first occurrence of x.
Remove(s, x) ==
    LET i == Index(s, x)
    IN SubSeq(s, 1, i - 1) \o SubSeq(s, i + 1, Len(s))

\* s[i:] with Python's i = n, i.e. everything after position n here.
After(s, n) == SubSeq(s, n + 1, Len(s))

\* list(d.keys()): the keys of dict d in insertion order.
Keys(d) == SelectSeq(KeyOrder, LAMBDA k : k \in DOMAIN d)

\* All strict orderings of all of S.
Perms(S) ==
    {f \in [1..Cardinality(S) -> S] : \A x \in S : \E i \in DOMAIN f : f[i] = x}

\* All strict orderings of subsets of S.
OrderedSubsets(S) == UNION {Perms(T) : T \in SUBSET S}

\* The empty dict.
EmptyDict == <<>>

-----------------------------------------------------------------------------
(* stable_marriage                                                          *)

SMIdle ==
    /\ hospital_prefs = EmptyDict /\ resident_prefs = EmptyDict
    /\ capacities = EmptyDict
    /\ free_residents = <<>> /\ free_hospitals = <<>>
    /\ hospital = None /\ resident = None
    /\ arg_hospital_prefs = EmptyDict /\ arg_resident_prefs = EmptyDict

\* A call stable_marriage(suitor_prefs, reviewer_prefs, optimal) on complete
\* strict lists over the two sides.
InitSM ==
    /\ suitor_prefs \in [Suitors -> Perms(Reviewers)]
    /\ reviewer_prefs \in [Reviewers -> Perms(Suitors)]
    /\ optimal \in SMOptions
    /\ arg_suitor_prefs = suitor_prefs
    /\ arg_reviewer_prefs = reviewer_prefs
    /\ pc = "sm_call"
    /\ error = None
    /\ matching = EmptyDict
    /\ suitors = <<>>
    /\ SMIdle

\* One reviewer fewer than there are suitors.
FewReviewers == {"D", "E"}

\* A call stable_marriage(suitor_prefs, reviewer_prefs, optimal) on any
\* strict lists, complete or not, mutually consistent or not, over three
\* suitors and two reviewers (optimal = reviewer makes the two reviewers
\* the proposing side).
InitSMAny ==
    /\ suitor_prefs \in [Suitors -> OrderedSubsets(FewReviewers)]
    /\ reviewer_prefs \in [FewReviewers -> OrderedSubsets(Suitors)]
    /\ optimal \in {"suitor", "reviewer"}
    /\ arg_suitor_prefs = suitor_prefs
    /\ arg_reviewer_prefs = reviewer_prefs
    /\ pc = "sm_call"
    /\ error = None
    /\ matching = EmptyDict
    /\ suitors = <<>>
    /\ SMIdle

\* Faulty variant of sm_swap: the roles are never exchanged.
sm_swap_never(opt) == FALSE

\* Line 48: whether the two preference dicts change roles.
sm_swap(opt) == opt = "reviewer"

\* Lines 48-52: the role swap, the queue of suitors and the empty matching.
sm_enter ==
    /\ pc = "sm_call"
    /\ LET swap == sm_swap(optimal)
           sp == IF swap THEN reviewer_prefs ELSE suitor_prefs
           rp == IF swap THEN suitor_prefs ELSE reviewer_prefs
       IN /\ suitor_prefs' = sp
          /\ reviewer_prefs' = rp
          /\ suitors' = Keys(sp)
          /\ matching' = [s \in DOMAIN sp |-> None]
    /\ pc' = "sm_loop"
    /\ UNCHANGED <<optimal, error, arg_suitor_prefs, arg_reviewer_prefs, hr_vars>>

\* Lines 58-60: the key of the first item of `matching` whose value is
\* `reviewer`.
current_partner_of(m, reviewer) ==
    LET ks == Keys(m)
        i == CHOOSE i \in DOMAIN ks :
                 /\ m[ks[i]] = reviewer
                 /\ \A j \in 1..(i - 1) : m[ks[j]] # reviewer
    IN ks[i]

\* Faulty variant of sm_choice: the last entry of the list, not the first.
sm_choice_last(prefs) == prefs[Len(prefs)]

\* Line 56: the suitor's most preferred remaining reviewer, prefs[0].
sm_choice(prefs) == prefs[1]

\* Faulty variant of sm_requeue: the displaced suitor goes to the front.
sm_requeue_front(queue, current_partner) == <<current_partner>> \o queue

\* Faulty variant of sm_requeue: the displaced suitor is not queued again.
sm_requeue_lost(queue, current_partner) == queue

\* Line 62: the displaced suitor joins the end of the queue.
sm_requeue(queue, current_partner) == Append(queue, current_partner)

\* Faulty variant of sm_successors: the slice starts one entry early, at
\* the suitor itself.
sm_successors_early(prefs, suitor) == After(prefs, Index(prefs, suitor) - 1)

\* Faulty variant of sm_successors: the slice starts one entry late.
sm_successors_late(prefs, suitor) == After(prefs, Index(prefs, suitor) + 1)

\* Lines 66-67: the suitors the reviewer ranks below `suitor`.
sm_successors(prefs, suitor) == After(prefs, Index(prefs, suitor))

\* Lines 69-71: the loop over `successors`, from its n-th element on.  The
\* result holds both dicts and the exception that stopped the loop, if any.
RECURSIVE sm_prune(_, _, _, _, _)
sm_prune(sp, rp, reviewer, successors, n) ==
    IF n > Len(successors) THEN [sp |-> sp, rp |-> rp, err |-> None]
    ELSE LET successor == successors[n]
             rp1 == [rp EXCEPT ![reviewer] = Remove(@, successor)]
         IN IF ~In(reviewer, sp[successor])
            THEN [sp |-> sp, rp |-> rp1, err |-> "ValueError"]
            ELSE sm_prune([sp EXCEPT ![successor] = Remove(@, reviewer)],
                          rp1, reviewer, successors, n + 1)

\* Lines 55-71: one iteration of the while loop.
sm_iteration ==
    /\ pc = "sm_loop"
    /\ suitors # <<>>
    /\ LET suitor == Head(suitors)
           popped == Tail(suitors)
       IN IF suitor_prefs[suitor] = <<>>
          THEN \* line 56: suitor_prefs[suitor][0] on an empty list
               /\ suitors' = popped
               /\ pc' = "sm_error" /\ error' = "IndexError"
               /\ UNCHANGED <<matching, suitor_prefs, reviewer_prefs>>
          ELSE LET reviewer == sm_choice(suitor_prefs[suitor])
                   taken == \E k \in DOMAIN matching : matching[k] = reviewer
                   current_partner == current_partner_of(matching, reviewer)
                   m1 == IF taken
                         THEN [matching EXCEPT ![current_partner] = None]
                         ELSE matching
                   q1 == IF taken THEN sm_requeue(popped, current_partner)
                         ELSE popped
                   m2 == [m1 EXCEPT ![suitor] = reviewer]
               IN /\ suitors' = q1
                  /\ matching' = m2
                  /\ IF ~In(suitor, reviewer_prefs[reviewer])
                     THEN \* line 66: .index(suitor) of an absent suitor
                          /\ pc' = "sm_error" /\ error' = "ValueError"
                          /\ UNCHANGED <<suitor_prefs, reviewer_prefs>>
                     ELSE LET successors ==
                                  sm_successors(reviewer_prefs[reviewer], suitor)
                              res == sm_prune(suitor_prefs, reviewer_prefs,
                                              reviewer, successors, 1)
                          IN /\ suitor_prefs' = res.sp
                             /\ reviewer_prefs' = res.rp
                             /\ error' = res.err
                             /\ pc' = IF res.err = None THEN "sm_loop"
                                      ELSE "sm_error"
    /\ UNCHANGED <<optimal, arg_suitor_prefs, arg_reviewer_prefs, hr_vars>>

\* Lines 54 and 73: the queue is empty, the matching is returned.
sm_return ==
    /\ pc = "sm_loop"
    /\ suitors = <<>>
    /\ pc' = "sm_done"
    /\ UNCHANGED <<optimal, error, matching, sm_vars, hr_vars>>

stable_marriage == sm_enter \/ sm_iteration \/ sm_return

SpecSM == InitSM /\ [][stable_marriage]_vars

SpecSMAny == InitSMAny /\ [][stable_marriage]_vars

-----------------------------------------------------------------------------
(* hospital_resident                                                        *)

HRIdle ==
    /\ suitor_prefs = EmptyDict /\ reviewer_prefs = EmptyDict
    /\ suitors = <<>>
    /\ arg_suitor_prefs = EmptyDict /\ arg_reviewer_prefs = EmptyDict

\* x is in y's list exactly when y is in x's list.
MutuallyConsistent(hp, rp) ==
    \A h \in DOMAIN hp : \A r \in DOMAIN rp : In(r, hp[h]) <=> In(h, rp[r])

HRStart ==
    /\ arg_hospital_prefs = hospital_prefs
    /\ arg_resident_prefs = resident_prefs
    /\ pc = "hr_call"
    /\ error = None
    /\ matching = EmptyDict
    /\ free_residents = <<>> /\ free_hospitals = <<>>
    /\ hospital = None /\ resident = None
    /\ HRIdle

\* A call hospital_resident(hospital_prefs, resident_prefs, capacities,
\* optimal) on mutually consistent strict lists and positive capacities.
InitHR ==
    /\ resident_prefs \in [Residents -> OrderedSubsets(Hospitals)]
    /\ hospital_prefs \in [Hospitals -> OrderedSubsets(Residents)]
    /\ MutuallyConsistent(hospital_prefs, resident_prefs)
    /\ capacities \in [Hospitals -> 1..MaxCapacity]
    /\ optimal \in {"resident", "hospital"}
    /\ HRStart

\* A call on any strict lists, consistent or not, with any `optimal`.
InitHRAny ==
    /\ resident_prefs \in [Residents -> OrderedSubsets(Hospitals)]
    /\ hospital_prefs \in [Hospitals -> OrderedSubsets(Residents)]
    /\ capacities \in [Hospitals -> 1..MaxCapacity]
    /\ optimal \in HROptions
    /\ HRStart

\* Faulty variant of check_inputs: the check runs in the other direction
\* only (every resident a hospital lists must list it).
check_inputs_reversed(hp, rp) ==
    \A h \in DOMAIN hp : \A i \in DOMAIN hp[h] : In(h, rp[hp[h][i]])

\* Lines 8-13: TRUE when _check_inputs returns, FALSE when it raises
\* ValueError.  Every hospital a resident can list is a key of hp.
check_inputs(hp, rp) ==
    \A r \in DOMAIN rp : \A i \in DOMAIN rp[r] : In(r, hp[rp[r][i]])

\* Lines 20-25.
get_free_residents(rp, m) ==
    SelectSeq(Keys(rp),
              LAMBDA r : rp[r] # <<>> /\ ~\E h \in DOMAIN m : In(r, m[h]))

\* Lines 32-38: the positions, in h's list, of the residents matched to h;
\* _get_worst_idx is their maximum (as a position here: Python's index + 1).
matched_positions(h, hp, m) ==
    {i \in DOMAIN hp[h] : In(hp[h][i], m[h])}

get_worst_idx(h, hp, m) ==
    LET P == matched_positions(h, hp, m)
    IN CHOOSE i \in P : \A j \in P : j <= i

\* Lines 121-132.
get_free_hospitals(hp, cap, m) ==
    SelectSeq(Keys(hp),
              LAMBDA h : /\ Len(m[h]) < cap[h]
                         /\ \E i \in DOMAIN hp[h] : ~In(hp[h][i], m[h]))

\* Line 221: the consistency check.
hr_check ==
    /\ pc = "hr_call"
    /\ IF check_inputs(hospital_prefs, resident_prefs)
       THEN pc' = "hr_dispatch" /\ error' = None
       ELSE pc' = "hr_error" /\ error' = "ValueError"
    /\ UNCHANGED <<optimal, matching, sm_vars, hr_vars>>

\* Faulty variant of hr_solver: the two solvers are exchanged.
hr_solver_swapped(opt) ==
    CASE opt = "resident" -> "hr_hospital_optimal"
      [] opt = "hospital" -> "hr_resident_optimal"
      [] OTHER -> "ValueError"

\* Lines 223-235: the solver an `optimal` value selects, or the ValueError.
hr_solver(opt) ==
    CASE opt = "resident" -> "hr_resident_optimal"
      [] opt = "hospital" -> "hr_hospital_optimal"
      [] OTHER -> "ValueError"

\* Lines 223-235, with the first two lines of the solver that is entered
\* (lines 87-88 or 159-160).
hr_dispatch ==
    /\ pc = "hr_dispatch"
    /\ LET m0 == [h \in DOMAIN hospital_prefs |-> <<>>]
           solver == hr_solver(optimal)
       IN CASE solver = "hr_resident_optimal" ->
                 /\ matching' = m0
                 /\ free_residents' = get_free_residents(resident_prefs, m0)
                 /\ pc' = "ro_loop"
                 /\ UNCHANGED <<error, free_hospitals>>
            [] solver = "hr_hospital_optimal" ->
                 /\ matching' = m0
                 /\ free_hospitals' =
                        get_free_hospitals(hospital_prefs, capacities, m0)
                 /\ pc' = "ho_loop"
                 /\ UNCHANGED <<error, free_residents>>
            [] OTHER ->
                 /\ pc' = "hr_error" /\ error' = "ValueError"
                 /\ UNCHANGED <<matching, free_residents, free_hospitals>>
    /\ UNCHANGED <<optimal, sm_vars, hospital_prefs, resident_prefs, capacities,
                   hospital, resident, arg_hospital_prefs, arg_resident_prefs>>

\* Faulty variant of ro_choice: the last entry of the list, not the first.
ro_choice_last(prefs) == prefs[Len(prefs)]

\* Line 92: the resident's most preferred remaining hospital, prefs[0].
ro_choice(prefs) == prefs[1]

\* Lines 91-93: the first free resident is added to its first hospital.
ro_propose ==
    /\ pc = "ro_loop"
    /\ free_residents # <<>>
    /\ LET r == free_residents[1]
           h == ro_choice(resident_prefs[r])
       IN /\ resident' = r
          /\ hospital' = h
          /\ matching' = [matching EXCEPT ![h] = Append(@, r)]
    /\ pc' = "ro_added"
    /\ UNCHANGED <<optimal, error, sm_vars, hospital_prefs, resident_prefs,
                   capacities, free_residents, free_hospitals,
                   arg_hospital_prefs, arg_resident_prefs>>

\* Faulty variant of ro_evict: the newcomer is the one turned away.
ro_evict_newcomer(h, hp, cap, m) ==
    IF Len(m[h]) > cap[h]
    THEN [m EXCEPT ![h] = SubSeq(@, 1, Len(@) - 1)]
    ELSE m

\* Faulty variant of ro_evict: nobody is evicted.
ro_evict_none(h, hp, cap, m) == m

\* Lines 95-98: the matching after the eviction, if `hospital` is over its
\* capacity.
ro_evict(h, hp, cap, m) ==
    IF Len(m[h]) > cap[h]
    THEN [m EXCEPT ![h] = Remove(@, hp[h][get_worst_idx(h, hp, m)])]
    ELSE m

\* Faulty variant of ro_prune: only the hospital's list is pruned.
ro_prune_one_sided(hp, rp, h, successors, n) ==
    [hp |-> [hp EXCEPT ![h] = SelectSeq(@, LAMBDA r : ~In(r, successors))],
     rp |-> rp]

\* Lines 105-108: the loop over `successors`, from its n-th element on.
RECURSIVE ro_prune(_, _, _, _, _)
ro_prune(hp, rp, h, successors, n) ==
    IF n > Len(successors) THEN [hp |-> hp, rp |-> rp]
    ELSE LET r == successors[n]
         IN ro_prune([hp EXCEPT ![h] = Remove(@, r)],
                     IF In(h, rp[r]) THEN [rp EXCEPT ![r] = Remove(@, h)]
                     ELSE rp,
                     h, successors, n + 1)

\* Lines 95-110: eviction, pruning and the rescan for free residents.  The
\* maximum of _get_worst_idx is over an empty list (ValueError) when no
\* resident matched to `hospital` is in its list.
ro_settle ==
    /\ pc = "ro_added"
    /\ LET h == hospital
           over == Len(matching[h]) > capacities[h]
       IN IF over /\ matched_positions(h, hospital_prefs, matching) = {}
          THEN /\ pc' = "hr_error" /\ error' = "ValueError"
               /\ UNCHANGED <<matching, hospital_prefs, resident_prefs,
                              free_residents, resident>>
          ELSE LET m1 == ro_evict(h, hospital_prefs, capacities, matching)
                   full == Len(m1[h]) = capacities[h]
                   evicted == IF over
                              THEN hospital_prefs[h][get_worst_idx(
                                       h, hospital_prefs, matching)]
                              ELSE resident
               IN /\ matching' = m1
                  /\ IF full /\ matched_positions(h, hospital_prefs, m1) = {}
                     THEN /\ pc' = "hr_error" /\ error' = "ValueError"
                          /\ resident' = evicted
                          /\ UNCHANGED <<hospital_prefs, resident_prefs,
                                         free_residents>>
                     ELSE LET worst == get_worst_idx(h, hospital_prefs, m1)
                              successors ==
                                  IF full THEN After(hospital_prefs[h], worst)
                                  ELSE <<>>
                              res == ro_prune(hospital_prefs, resident_prefs,
                                              h, successors, 1)
                          IN /\ hospital_prefs' = res.hp
                             /\ resident_prefs' = res.rp
                             /\ resident' = IF successors = <<>> THEN evicted
                                            ELSE successors[Len(successors)]
                             /\ free_residents' =
                                    get_free_residents(res.rp, m1)
                             /\ pc' = "ro_loop"
                             /\ error' = None
    /\ UNCHANGED <<optimal, sm_vars, capacities, free_hospitals, hospital,
                   arg_hospital_prefs, arg_resident_prefs>>

\* sorted(matches, key=prefs.index): a stable insertion sort by position in
\* prefs, for matches that are all in prefs.
RECURSIVE sorted_by(_, _)
sorted_by(matches, prefs) ==
    IF matches = <<>> THEN <<>>
    ELSE LET n == Len(matches)
             x == matches[n]
             init == sorted_by(SubSeq(matches, 1, n - 1), prefs)
             k == Cardinality({i \in DOMAIN init :
                                  Index(prefs, init[i]) <= Index(prefs, x)})
         IN SubSeq(init, 1, k) \o <<x>> \o SubSeq(init, k + 1, Len(init))

\* Lines 112-114: the loop over matching.items(), from the n-th key on.
\* sorted(..., key=prefs.index) raises ValueError for a match that is not
\* in prefs; the hospitals before it are already sorted.
RECURSIVE ro_sort(_, _, _, _)
ro_sort(m, hp, ks, n) ==
    IF n > Len(ks) THEN [m |-> m, err |-> None, last |-> n - 1]
    ELSE LET h == ks[n]
         IN IF \E i \in DOMAIN m[h] : ~In(m[h][i], hp[h])
            THEN [m |-> m, err |-> "ValueError", last |-> n]
            ELSE ro_sort([m EXCEPT ![h] = sorted_by(m[h], hp[h])],
                         hp, ks, n + 1)

\* Lines 90 and 112-116: no free resident is left; every hospital's matches
\* are sorted and the matching is returned.  The for loop leaves its last
\* key in `hospital`.
ro_return ==
    /\ pc = "ro_loop"
    /\ free_residents = <<>>
    /\ LET ks == Keys(matching)
           res == ro_sort(matching, hospital_prefs, ks, 1)
       IN /\ matching' = res.m
          /\ hospital' = IF res.last = 0 THEN hospital ELSE ks[res.last]
          /\ error' = res.err
          /\ pc' = IF res.err = None THEN "hr_done" ELSE "hr_error"
    /\ UNCHANGED <<optimal, sm_vars, hospital_prefs, resident_prefs,
                   capacities, free_residents, free_hospitals, resident,
                   arg_hospital_prefs, arg_resident_prefs>>

hr_resident_optimal == ro_propose \/ ro_settle \/ ro_return

\* Faulty variant of ho_remove: the resident stays where it was.
ho_remove_none(m, r) == m

\* Lines 170-172: `resident` is removed from every hospital that holds it.
ho_remove(m, r) ==
    [h \in DOMAIN m |-> IF In(r, m[h]) THEN Remove(m[h], r) ELSE m[h]]

\* Faulty variant of ho_choice: the last such resident, not the first.
ho_choice_last(prefs, matches) ==
    LET unmatched == SelectSeq(prefs, LAMBDA r : ~In(r, matches))
    IN unmatched[Len(unmatched)]

\* Lines 164-168: the hospital's most preferred resident it is not matched
\* to, [...][0].
ho_choice(prefs, matches) ==
    LET unmatched == SelectSeq(prefs, LAMBDA r : ~In(r, matches))
    IN unmatched[1]

\* Lines 163-172: the first free hospital takes its first resident it is not
\* matched to, who leaves the hospital that holds it.
ho_unassign ==
    /\ pc = "ho_loop"
    /\ free_hospitals # <<>>
    /\ LET h == free_hospitals[1]
           r == ho_choice(hospital_prefs[h], matching[h])
       IN /\ hospital' = h
          /\ resident' = r
          /\ matching' = ho_remove(matching, r)
    /\ pc' = "ho_removed"
    /\ UNCHANGED <<optimal, error, sm_vars, hospital_prefs, resident_prefs,
                   capacities, free_residents, free_hospitals,
                   arg_hospital_prefs, arg_resident_prefs>>

\* Faulty variant of ho_prune: nothing is pruned.
ho_prune_none(hp, rp, r, successors, n) ==
    [hp |-> hp, rp |-> rp, err |-> None]

\* Lines 179-181: the loop over `successors`, from its n-th element on.
RECURSIVE ho_prune(_, _, _, _, _)
ho_prune(hp, rp, r, successors, n) ==
    IF n > Len(successors) THEN [hp |-> hp, rp |-> rp, err |-> None]
    ELSE LET successor == successors[n]
         IN IF ~In(r, hp[successor])
            THEN [hp |-> hp, rp |-> rp, err |-> "ValueError"]
            ELSE ho_prune([hp EXCEPT ![successor] = Remove(@, r)],
                          [rp EXCEPT ![r] = Remove(@, successor)],
                          r, successors, n + 1)

\* Faulty variant of ho_append: the resident is put first, not last.
ho_append_front(m, h, r) == [m EXCEPT ![h] = <<r>> \o @]

\* Line 174: `resident` joins `hospital`.
ho_append(m, h, r) == [m EXCEPT ![h] = Append(@, r)]

\* Lines 174-185: the resident is added, the hospitals it ranks below the
\* new one are pruned, and the free hospitals are rescanned.
ho_assign ==
    /\ pc = "ho_removed"
    /\ LET h == hospital
           r == resident
           m1 == ho_append(matching, h, r)
       IN /\ matching' = m1
          /\ IF ~In(h, resident_prefs[r])
             THEN \* line 175: .index(hospital) of an absent hospital
                  /\ pc' = "hr_error" /\ error' = "ValueError"
                  /\ UNCHANGED <<hospital_prefs, resident_prefs,
                                 free_hospitals>>
             ELSE LET idx == Index(resident_prefs[r], h)
                      successors == After(resident_prefs[r], idx)
                      res == ho_prune(hospital_prefs, resident_prefs, r,
                                      successors, 1)
                  IN /\ hospital_prefs' = res.hp
                     /\ resident_prefs' = res.rp
                     /\ error' = res.err
                     /\ IF res.err = None
                        THEN /\ free_hospitals' = get_free_hospitals(
                                    res.hp, capacities, m1)
                             /\ pc' = "ho_loop"
                        ELSE /\ pc' = "hr_error"
                             /\ UNCHANGED free_hospitals
    /\ UNCHANGED <<optimal, sm_vars, capacities, free_residents, hospital,
                   resident, arg_hospital_prefs, arg_resident_prefs>>

\* Lines 162 and 187: no free hospital is left; the matching is returned.
ho_return ==
    /\ pc = "ho_loop"
    /\ free_hospitals = <<>>
    /\ pc' = "hr_done"
    /\ UNCHANGED <<optimal, error, matching, sm_vars, hr_vars>>

hr_hospital_optimal == ho_unassign \/ ho_assign \/ ho_return

hospital_resident ==
    hr_check \/ hr_dispatch \/ hr_resident_optimal \/ hr_hospital_optimal

SpecHR == InitHR /\ [][hospital_resident]_vars

SpecHRAny == InitHRAny /\ [][hospital_resident]_vars

-----------------------------------------------------------------------------
(* Both entry operations: a call of stable_marriage on complete lists or a *)
(* call of hospital_resident on mutually consistent lists.                 *)

Init == InitSM \/ InitHR

Next == stable_marriage \/ hospital_resident

Spec == Init /\ [][Next]_vars

-----------------------------------------------------------------------------
(* Preferences and stability, read from the lists as they were passed.     *)

\* Position of x in a list; a player that is absent (or None, for an
\* unmatched player) ranks below every entry.
Rank(list, x) == IF In(x, list) THEN Index(list, x) ELSE Len(list) + 1

\* The owner of `list` ranks x, and ranks it above y.
Prefers(list, x, y) == In(x, list) /\ Rank(list, x) < Rank(list, y)

\* The partner a one-to-one matching gives player x, whichever side its
\* keys are: the value of key x, or the key whose value is x, or None.
SMPartner(m, x) ==
    IF x \in DOMAIN m THEN m[x]
    ELSE IF \E k \in DOMAIN m : m[k] = x
         THEN CHOOSE k \in DOMAIN m : m[k] = x
         ELSE None

\* Suitor s and reviewer r block m: they are not matched to each other and
\* each ranks the other above its partner in m.
SMBlocking(m, s, r) ==
    /\ SMPartner(m, s) # r
    /\ Prefers(arg_suitor_prefs[s], r, SMPartner(m, s))
    /\ Prefers(arg_reviewer_prefs[r], s, SMPartner(m, r))

SMStable(m) ==
    \A s \in DOMAIN arg_suitor_prefs : \A r \in DOMAIN arg_reviewer_prefs :
        ~SMBlocking(m, s, r)

\* All one-to-one matchings of every suitor, and those that are stable.
SMPerfectMatchings ==
    {m \in [DOMAIN arg_suitor_prefs -> DOMAIN arg_reviewer_prefs] :
        \A s, t \in DOMAIN m : m[s] = m[t] => s = t}

SMStableMatchings == {m \in SMPerfectMatchings : SMStable(m)}

SMReturned == pc = "sm_done" /\ optimal \in {"suitor", "reviewer"}

\* The side that proposes, and the other side.
SMProposers ==
    IF optimal = "reviewer" THEN DOMAIN arg_reviewer_prefs
    ELSE DOMAIN arg_suitor_prefs

SMProposedTo ==
    IF optimal = "reviewer" THEN DOMAIN arg_suitor_prefs
    ELSE DOMAIN arg_reviewer_prefs

\* The list player x passed.
SMArgList(x) ==
    IF x \in DOMAIN arg_suitor_prefs THEN arg_suitor_prefs[x]
    ELSE arg_reviewer_prefs[x]

\* The hospital that holds resident r in m, or None.
HRHolder(m, r) ==
    IF \E h \in DOMAIN m : In(r, m[h])
    THEN CHOOSE h \in DOMAIN m : In(r, m[h])
    ELSE None

\* Resident r and hospital h block m: they rank each other, r is not at h,
\* r is unmatched or ranks h above its hospital, and h has a free place or
\* ranks r above some resident it holds.
HRBlocking(m, r, h) ==
    /\ In(h, arg_resident_prefs[r]) /\ In(r, arg_hospital_prefs[h])
    /\ ~In(r, m[h])
    /\ Prefers(arg_resident_prefs[r], h, HRHolder(m, r))
    /\ \/ Len(m[h]) < capacities[h]
       \/ \E i \in DOMAIN m[h] : Prefers(arg_hospital_prefs[h], r, m[h][i])

HRStable(m) ==
    \A r \in DOMAIN arg_resident_prefs : \A h \in DOMAIN arg_hospital_prefs :
        ~HRBlocking(m, r, h)

\* An assignment (resident -> hospital or None) as a matching dict, each
\* hospital's residents in the order of its list.
HRAsMatching(a) ==
    [h \in DOMAIN arg_hospital_prefs |->
        SelectSeq(arg_hospital_prefs[h], LAMBDA r : a[r] = h)]

\* All stable matchings of the instance: every resident is unassigned or at
\* a hospital it ranks and that ranks it, no hospital is over its capacity,
\* and there is no blocking pair.
HRStableAssignments ==
    {a \in [DOMAIN arg_resident_prefs ->
               DOMAIN arg_hospital_prefs \cup {None}] :
        /\ \A r \in DOMAIN a :
               a[r] # None => /\ In(a[r], arg_resident_prefs[r])
                              /\ In(r, arg_hospital_prefs[a[r]])
        /\ \A h \in DOMAIN arg_hospital_prefs :
               Cardinality({r \in DOMAIN a : a[r] = h}) <= capacities[h]
        /\ HRStable(HRAsMatching(a))}

\* The assignment a matching dict makes, and whether it holds every
\* resident at most once.
HRAssignmentOf(m) == [r \in DOMAIN arg_resident_prefs |-> HRHolder(m, r)]

HRHeldOnce(m) ==
    \A r \in DOMAIN arg_resident_prefs :
        Cardinality({p \in (DOMAIN m) \X (1..Cardinality(Residents)) :
                        p[2] \in DOMAIN m[p[1]] /\ m[p[1]][p[2]] = r}) <= 1

\* Some resident lists a hospital that does not list it.
MissingRank(hp, rp) ==
    \E r \in DOMAIN rp : \E h \in DOMAIN hp : In(h, rp[r]) /\ ~In(r, hp[h])

\* Some hospital lists a resident that does not list it.
ExtraRank(hp, rp) ==
    \E r \in DOMAIN rp : \E h \in DOMAIN hp : In(r, hp[h]) /\ ~In(h, rp[r])

\* Nothing the caller passed, and no matching, has been touched.
HRUntouched ==
    /\ matching = EmptyDict
    /\ hospital_prefs = arg_hospital_prefs
    /\ resident_prefs = arg_resident_prefs

-----------------------------------------------------------------------------
(* The claims.                                                              *)

\* C1. Stability (SM): the matching stable_marriage returns, for optimal
\* suitor or reviewer, has no blocking pair with respect to the lists as
\* they were passed: no suitor s and reviewer r each rank the other above
\* their partner.
C1_StabilitySM == SMReturned => SMStable(matching)

\* A returned reviewer-optimal matching in which some proposer did not get
\* its first choice.
C1_Witness ==
    /\ SMReturned /\ optimal = "reviewer"
    /\ \E k \in DOMAIN matching : matching[k] # SMArgList(k)[1]

\* C4. Bijection (SM): the returned matching has exactly the proposing side
\* as keys, no key maps to None, its values are exactly the other side, and
\* no two keys share a value.
C4_BijectionSM ==
    SMReturned =>
        /\ DOMAIN matching = SMProposers
        /\ \A k \in DOMAIN matching : matching[k] # None
        /\ {matching[k] : k \in DOMAIN matching} = SMProposedTo
        /\ \A k, l \in DOMAIN matching : matching[k] = matching[l] => k = l

\* A returned suitor-optimal matching of an instance in which all suitors
\* have the same first choice, so that suitors were displaced.
C4_Witness ==
    /\ SMReturned /\ optimal = "suitor"
    /\ \A s \in DOMAIN arg_suitor_prefs : arg_suitor_prefs[s][1] = "D"

\* C8. Invalid optimality option: a call of either entry operation whose
\* `optimal` is not one of the two values of its problem ends in an error,
\* at once: when the call has ended it has raised, no matching was built
\* and no preference list differs from what was passed.
C8_InvalidOptionFails ==
    /\ (/\ arg_suitor_prefs # EmptyDict
        /\ optimal \notin {"suitor", "reviewer"}
        /\ pc \in {"sm_done", "sm_error"})
         => /\ pc = "sm_error"
            /\ matching = EmptyDict
            /\ suitor_prefs = arg_suitor_prefs
            /\ reviewer_prefs = arg_reviewer_prefs
    /\ (/\ arg_hospital_prefs # EmptyDict
        /\ optimal \notin {"resident", "hospital"}
        /\ pc \in {"hr_done", "hr_error"})
         => /\ pc = "hr_error"
            /\ HRUntouched

\* C9. Optimality (SM): in the returned matching every member of the
\* proposing side (the suitors for optimal = suitor, the reviewers for
\* optimal = reviewer) has the partner it ranks highest among its partners
\* in all stable matchings of the instance as passed.
C9_OptimalitySM ==
    SMReturned =>
        \A other \in SMStableMatchings : \A x \in SMProposers :
            ~Prefers(SMArgList(x), SMPartner(other, x), SMPartner(matching, x))

\* A returned suitor-optimal matching of an instance that has another
\* stable matching, in which some suitor is strictly worse off.
C9_Witness ==
    /\ SMReturned /\ optimal = "suitor"
    /\ \E other \in SMStableMatchings : \E s \in DOMAIN arg_suitor_prefs :
           Prefers(arg_suitor_prefs[s], matching[s], other[s])

HRReturned == pc = "hr_done"

\* C2. Stability (HR): the matching hospital_resident returns on mutually
\* consistent strict lists and positive capacities, for optimal resident or
\* hospital, has no blocking pair with respect to the lists as passed.
C2_StabilityHR == HRReturned => HRStable(matching)

\* A returned hospital-optimal matching that leaves unmatched a resident
\* who ranks some hospital.
C2_Witness ==
    /\ HRReturned /\ optimal = "hospital"
    /\ \E r \in DOMAIN arg_resident_prefs :
           arg_resident_prefs[r] # <<>> /\ HRHolder(matching, r) = None

\* C3, as stated: in every state of a run of either solver, every hospital
\* holds at most capacity(h) residents.
C3_CapacityAtEveryStep ==
    \A h \in DOMAIN matching : Len(matching[h]) <= capacities[h]

\* C3, amended: every hospital holds at most capacity(h) residents in every
\* state of hr_hospital_optimal and, in hr_resident_optimal, at every
\* loop-iteration boundary and at return; between the provisional add
\* (line 93) and the eviction (lines 95-98) only the hospital proposed to
\* may be over its capacity, and by one resident.
C3_CapacityAtBoundaries ==
    \A h \in DOMAIN matching :
        IF pc = "ro_added" /\ h = hospital
        THEN Len(matching[h]) <= capacities[h] + 1
        ELSE Len(matching[h]) <= capacities[h]

\* The hospital proposed to holds one resident more than its capacity.
C3_Witness ==
    /\ pc = "ro_added"
    /\ Len(matching[hospital]) = capacities[hospital] + 1

C6_ExtraRankRejected ==
    (/\ ExtraRank(arg_hospital_prefs, arg_resident_prefs)
     /\ ~MissingRank(arg_hospital_prefs, arg_resident_prefs)
     /\ pc \in {"hr_done", "hr_error"})
        => /\ pc = "hr_error" /\ error = "ValueError"
           /\ HRUntouched

\* Residents appear in strictly increasing position of `prefs`.
StrictlyIncreasing(matches, prefs) ==
    /\ \A i \in DOMAIN matches : In(matches[i], prefs)
    /\ \A i, j \in DOMAIN matches :
           i < j => Index(prefs, matches[i]) < Index(prefs, matches[j])

\* C7. Ordered result (HR): in the returned matching, for optimal resident
\* or hospital, every hospital's residents are in strictly increasing
\* position of that hospital's list as passed.
C7_OrderedResult ==
    HRReturned =>
        \A h \in DOMAIN matching :
            StrictlyIncreasing(matching[h], arg_hospital_prefs[h])

\* A returned hospital-optimal matching in which a hospital holds two
\* residents and pruning has shortened some hospital's list.
C7_Witness ==
    /\ HRReturned /\ optimal = "hospital"
    /\ \E h \in DOMAIN matching : Len(matching[h]) >= 2
    /\ \E h \in DOMAIN matching : hospital_prefs[h] # arg_hospital_prefs[h]

\* C10. Resident-optimality (HR): in the matching hr_resident_optimal
\* returns, every resident assigned in some stable matching of the instance
\* as passed is assigned, and to a hospital it ranks at least as high as its
\* hospital in that stable matching.  The matching hr_hospital_optimal
\* returns on the same instance is one of these stable matchings, so no
\* resident ranks its hospital there above its resident-optimal hospital.
C10_ResidentOptimal ==
    /\ (HRReturned /\ optimal = "resident") =>
           \A a \in HRStableAssignments : \A r \in DOMAIN a :
               a[r] # None =>
                   /\ HRHolder(matching, r) # None
                   /\ ~Prefers(arg_resident_prefs[r], a[r],
                               HRHolder(matching, r))
    /\ (HRReturned /\ optimal = "hospital") =>
           /\ HRHeldOnce(matching)
           /\ HRAssignmentOf(matching) \in HRStableAssignments

\* A returned resident-optimal matching of an instance that has another
\* stable matching, in which some resident is strictly worse off.
C10_Witness ==
    /\ HRReturned /\ optimal = "resident"
    /\ \E a \in HRStableAssignments : \E r \in DOMAIN a :
           /\ a[r] # None
           /\ Prefers(arg_resident_prefs[r], HRHolder(matching, r), a[r])

\* C11. Hospital-optimality (HR): in the matching hr_hospital_optimal
\* returns, every hospital h ranks every resident it holds above every
\* resident that some stable matching of the instance as passed gives h and
\* the returned matching does not.
C11_HospitalOptimal ==
    (HRReturned /\ optimal = "hospital") =>
        \A a \in HRStableAssignments : \A h \in DOMAIN matching :
            \A r \in DOMAIN a :
                (a[r] = h /\ ~In(r, matching[h])) =>
                    \A i \in DOMAIN matching[h] :
                        Prefers(arg_hospital_prefs[h], matching[h][i], r)

\* A returned hospital-optimal matching of an instance that has another
\* stable matching, which gives some hospital a resident it does not hold
\* in the returned one.
C11_Witness ==
    /\ HRReturned /\ optimal = "hospital"
    /\ \E a \in HRStableAssignments : \E r \in DOMAIN a :
           /\ a[r] # None
           /\ ~In(r, matching[a[r]])
           /\ matching[a[r]] # <<>>

\* The dicts the caller passed as suitor_prefs and reviewer_prefs: line 49
\* exchanges the two local names, not the objects.
SMCallerSuitorPrefs == IF sm_swap(optimal) THEN reviewer_prefs ELSE suitor_prefs

SMCallerReviewerPrefs == IF sm_swap(optimal) THEN suitor_prefs ELSE reviewer_prefs

\* C12. Caller inputs survive a run: when stable_marriage or
\* hospital_resident, called with a valid `optimal`, has returned a
\* matching, every preference list the caller supplied, on both sides, has
\* the content and order it had when the call was made.  (No statement of
\* the code assigns to capacities or to one of its items.)
C12_InputsSurvive ==
    /\ SMReturned =>
           /\ SMCallerSuitorPrefs = arg_suitor_prefs
           /\ SMCallerReviewerPrefs = arg_reviewer_prefs
    /\ HRReturned =>
           /\ hospital_prefs = arg_hospital_prefs
           /\ resident_prefs = arg_resident_prefs

\* The current list of player x, whichever dict holds it.
ListOf(x) ==
    IF x \in DOMAIN suitor_prefs THEN suitor_prefs[x]
    ELSE IF x \in DOMAIN reviewer_prefs THEN reviewer_prefs[x]
    ELSE IF x \in DOMAIN hospital_prefs THEN hospital_prefs[x]
    ELSE resident_prefs[x]

Players ==
    DOMAIN suitor_prefs \cup DOMAIN reviewer_prefs
        \cup DOMAIN hospital_prefs \cup DOMAIN resident_prefs

\* List a is list b with some entries left out (b has no duplicates).
IsSubsequence(a, b) == a = SelectSeq(b, LAMBDA x : In(x, a))

\* A step extends or reorders no list.
ListsOnlyShrink == \A x \in Players : IsSubsequence(ListOf(x)', ListOf(x))

\* A step removes an entry from some list.
SomeListShrinks == \E x \in Players : Len(ListOf(x)') < Len(ListOf(x))

\* A step that completes a loop iteration forms a pair that was not in the
\* matching when the iteration began, or shortens a list.  In
\* hr_resident_optimal the pair is the one of the resident added at line 93,
\* who was free; in hr_hospital_optimal the resident chosen at lines 164-168
\* was not held by the hospital.
IterationProgress ==
    /\ (pc = "sm_loop" /\ pc' = "sm_loop" /\ suitors # <<>>) =>
           \/ \E k \in DOMAIN matching :
                  matching'[k] # None /\ matching'[k] # matching[k]
           \/ SomeListShrinks
    /\ (pc = "ro_added" /\ pc' = "ro_loop") =>
           \/ /\ In(resident, matching'[hospital])
              /\ \A h \in DOMAIN matching :
                     h # hospital => ~In(resident, matching[h])
              /\ ~In(resident, SubSeq(matching[hospital], 1,
                                      Len(matching[hospital]) - 1))
           \/ SomeListShrinks
    /\ (pc = "ho_removed" /\ pc' = "ho_loop") =>
           \/ /\ In(resident, matching'[hospital])
              /\ ~In(resident, matching[hospital])
           \/ SomeListShrinks

\* The number of entries of the lists of dict d (from its n-th key on), and
\* of all current lists.
RECURSIVE DictLen(_, _, _)
DictLen(d, ks, n) ==
    IF n > Len(ks) THEN 0 ELSE Len(d[ks[n]]) + DictLen(d, ks, n + 1)

TotalLen ==
    DictLen(suitor_prefs, Keys(suitor_prefs), 1)
        + DictLen(reviewer_prefs, Keys(reviewer_prefs), 1)
        + DictLen(hospital_prefs, Keys(hospital_prefs), 1)
        + DictLen(resident_prefs, Keys(resident_prefs), 1)

\* The number of proposers that hold no partner (stable_marriage) or of
\* residents that no hospital holds (hospital_resident).
Unmatched ==
    IF pc \in {"sm_call", "hr_call", "hr_dispatch"}
    THEN Cardinality(Suitors \cup Residents)
    ELSE IF pc \in {"sm_loop", "sm_done", "sm_error"}
    THEN Cardinality({k \in DOMAIN matching : matching[k] = None})
    ELSE Cardinality(Residents) - DictLen(matching, Keys(matching), 1)

\* How far the call is from the head of its loop.
PcRank ==
    CASE pc \in {"sm_call", "hr_call"} -> 4
      [] pc = "hr_dispatch" -> 3
      [] pc \in {"ro_added", "ho_removed"} -> 2
      [] pc \in {"sm_loop", "ro_loop", "ho_loop"} -> 1
      [] OTHER -> 0

\* At line 174 of hr_hospital_optimal the iteration has chosen its pair
\* and not yet acted on it: the variant counts the resident as placed and
\* the hospitals it ranks below the new one as pruned (lines 175-181).
Pending ==
    IF pc = "ho_removed"
    THEN 1 + 2 * Len(After(resident_prefs[resident],
                           Index(resident_prefs[resident], hospital)))
    ELSE 0

\* A natural number that every step of a call makes smaller: the entries
\* left in the lists plus the players still unmatched, then the position
\* inside the iteration.
Variant == 5 * (TotalLen + Unmatched - Pending) + PcRank

VariantDecreases == Variant' < Variant

\* The call has been ended by an exception.
Raised == pc \in {"sm_error", "hr_error"}

\* C13. Termination: on complete strict lists over equal-sized sides
\* (stable_marriage) and on mutually consistent strict lists with positive
\* capacities (both hospital-resident solvers) the loop stops: no exception
\* ends the call, and every step makes a natural number smaller, so the
\* loop condition fails after finitely many steps and the call returns.  No
\* step extends or reorders a preference list, and every loop iteration
\* forms a pair that was not matched before or removes an entry from some
\* list.
C13_Termination ==
    /\ [](~Raised)
    /\ [][VariantDecreases]_vars
    /\ [][ListsOnlyShrink]_vars
    /\ [][IterationProgress]_vars

\* hr_resident_optimal has returned after an iteration in which the
\* newcomer itself was evicted: a resident who listed a hospital ends with
\* an empty list and no place.
C13_Witness ==
    /\ HRReturned /\ optimal = "resident"
    /\ \E r \in DOMAIN resident_prefs :
           /\ arg_resident_prefs[r] # <<>>
           /\ resident_prefs[r] = <<>>
           /\ HRHolder(matching, r) = None

\* Every list passed ranks every player of the other side.
SMCompleteLists ==
    /\ \A s \in DOMAIN arg_suitor_prefs :
           \A r \in DOMAIN arg_reviewer_prefs : In(r, arg_suitor_prefs[s])
    /\ \A r \in DOMAIN arg_reviewer_prefs :
           \A s \in DOMAIN arg_suitor_prefs : In(s, arg_reviewer_prefs[r])

\* No key of a returned matching is mapped to None.
SMNoPartialResult ==
    pc = "sm_done" => \A k \in DOMAIN matching : matching[k] # None

\* A call on complete lists with more proposers than players on the other
\* side does not return.
SMSurplusNeverReturns ==
    (SMCompleteLists /\ Cardinality(SMProposers) > Cardinality(SMProposedTo))
        => pc # "sm_done"

\* A step that dequeues a suitor whose list is empty ends the call with an
\* exception; the suitor is not skipped and nothing is matched.
SMEmptyListRaises ==
    (pc = "sm_loop" /\ suitors # <<>> /\ suitor_prefs[Head(suitors)] = <<>>)
        => /\ pc' = "sm_error" /\ error' # None
           /\ matching' = matching

\* C14. No partial SM matching: stable_marriage never returns a matching
\* in which a key is still mapped to None; when a free suitor is dequeued
\* with an empty list the call ends with an exception (IndexError at line
\* 56), and so does every call on complete lists with more suitors than
\* reviewers.
C14_NoPartialMatching ==
    /\ []SMNoPartialResult
    /\ []SMSurplusNeverReturns
    /\ [][SMEmptyListRaises]_vars

\* A call on complete lists of three suitors over two reviewers has ended
\* with IndexError, two suitors matched and the third not.
C14_Witness ==
    /\ pc = "sm_error" /\ error = "IndexError"
    /\ optimal = "suitor" /\ SMCompleteLists
    /\ Cardinality({k \in DOMAIN matching : matching[k] = None}) = 1

\* The free suitors (keys mapped to None) in the insertion order of the
\* proposing side's mapping.
SMFreeInOrder == SelectSeq(Keys(matching), LAMBDA k : matching[k] = None)

\* C15, as stated: in every round the suitor that proposes is the first
\* currently free suitor in the original insertion order; a suitor just
\* displaced proposes before any free suitor that comes later in that
\* order (for a call with a valid `optimal`).
C15_FirstFreeProposes ==
    (pc = "sm_loop" /\ suitors # <<>> /\ optimal \in {"suitor", "reviewer"})
        => Head(suitors) = SMFreeInOrder[1]

\* The queue holds exactly the free suitors, each once.
SMQueueIsFreeSet ==
    pc = "sm_loop" =>
        /\ {suitors[i] : i \in DOMAIN suitors}
               = {k \in DOMAIN matching : matching[k] = None}
        /\ \A i, j \in DOMAIN suitors : suitors[i] = suitors[j] => i = j

\* Lines 51-52: the queue starts as the keys of the proposing side.
SMQueueStart == pc = "sm_call" => suitors' = SMFreeInOrder'

\* An iteration matches the head of the queue and leaves the rest of the
\* queue in its order, with the suitor it displaced, if any, at the end.
SMQueueStep ==
    (pc = "sm_loop" /\ pc' = "sm_loop" /\ suitors # <<>>) =>
        /\ matching'[Head(suitors)] # None
        /\ \/ /\ suitors' = Tail(suitors)
              /\ \A k \in DOMAIN matching :
                     matching[k] # None => matching'[k] = matching[k]
           \/ \E d \in DOMAIN matching :
                  /\ matching[d] # None /\ matching'[d] = None
                  /\ suitors' = Append(Tail(suitors), d)

\* C15, amended: in every round the suitor that proposes is the head of
\* the queue `suitors`, which starts as the suitors in insertion order,
\* holds exactly the free suitors, and receives a displaced suitor at its
\* end: a displaced suitor proposes again after every suitor already
\* waiting, also those that come later in the original order.
C15_QueueOrder ==
    /\ []SMQueueIsFreeSet
    /\ [][SMQueueStart]_vars
    /\ [][SMQueueStep]_vars

\* A displaced suitor waits behind a free suitor that comes later in the
\* original order.
C15_Witness ==
    /\ pc = "sm_loop" /\ Len(suitors) >= 2
    /\ Head(suitors) # SMFreeInOrder[1]
    /\ suitors[Len(suitors)] = SMFreeInOrder[1]

\* The resident of `matches` that the owner of `prefs` ranks lowest.
LowestRanked(matches, prefs) ==
    CHOOSE r \in {matches[i] : i \in DOMAIN matches} :
        \A i \in DOMAIN matches : Rank(prefs, matches[i]) <= Rank(prefs, r)

\* Lines 95-98, as a step: when the add of line 93 has put the hospital
\* over its capacity, the step removes from its sequence the resident it
\* ranks lowest of those in the sequence, the newcomer included, and
\* nothing else; no other hospital's sequence changes.
ROEvictsWorst ==
    (pc = "ro_added" /\ pc' = "ro_loop"
        /\ Len(matching[hospital]) > capacities[hospital]) =>
        /\ matching'[hospital] =
               Remove(matching[hospital],
                      LowestRanked(matching[hospital],
                                   arg_hospital_prefs[hospital]))
        /\ Len(matching'[hospital]) = Len(matching[hospital]) - 1
        /\ \A h \in DOMAIN matching :
               h # hospital => matching'[h] = matching[h]

\* The residents whose list, as passed, starts with hospital h.
FirstChoiceOf(h) ==
    {r \in DOMAIN arg_resident_prefs :
        arg_resident_prefs[r] # <<>> /\ arg_resident_prefs[r][1] = h}

\* The first n entries of a list.
Best(prefs, n) == SubSeq(prefs, 1, n)

\* When more residents list h first than h has places, h ends with the
\* residents it ranks highest, as many as it has places.
ROKeepsBestOfAll ==
    (HRReturned /\ optimal = "resident") =>
        \A h \in DOMAIN matching :
            Cardinality(FirstChoiceOf(h)) > capacities[h] =>
                matching[h] = Best(arg_hospital_prefs[h], capacities[h])

\* C16, as stated: whenever the provisional add puts a hospital over its
\* capacity exactly one resident leaves its sequence, the one it ranks
\* lowest of those in the sequence, and all others stay; and when n
\* residents list the same hospital first, it ranks them, and its capacity
\* is c < n, hr_resident_optimal leaves it with exactly its c most
\* preferred residents.
C16_EvictsWorstKeepsBest ==
    /\ [][ROEvictsWorst]_vars
    /\ []ROKeepsBestOfAll

\* When every resident that hospital h ranks lists h first, and they are
\* more than h has places, h ends with the residents it ranks highest, as
\* many as it has places.
ROKeepsBest ==
    (HRReturned /\ optimal = "resident") =>
        \A h \in DOMAIN matching :
            (/\ Cardinality(FirstChoiceOf(h)) > capacities[h]
             /\ \A i \in DOMAIN arg_hospital_prefs[h] :
                    arg_hospital_prefs[h][i] \in FirstChoiceOf(h))
                => matching[h] = Best(arg_hospital_prefs[h], capacities[h])

\* C16, amended: the eviction is as stated; and when n residents list the
\* same hospital first, it ranks them and no other resident, and its
\* capacity is c < n, it ends with exactly its c most preferred residents.
C16_EvictsWorst ==
    /\ [][ROEvictsWorst]_vars
    /\ []ROKeepsBest

\* hr_resident_optimal has returned on an instance in which all three
\* residents list the same hospital first, it has two places, and the
\* resident it ranks lowest proposed first and was evicted.
C16_Witness ==
    /\ HRReturned /\ optimal = "resident"
    /\ \E h \in DOMAIN matching :
           /\ FirstChoiceOf(h) = DOMAIN arg_resident_prefs
           /\ capacities[h] = 2
           /\ arg_hospital_prefs[h][3] = Keys(arg_resident_prefs)[1]
           /\ matching[h] = Best(arg_hospital_prefs[h], 2)

\* C17. One hospital per resident: in every state of a run of
\* hr_resident_optimal or hr_hospital_optimal, also between the removal of
\* a resident from its old hospital (lines 170-172) and its addition to the
\* new one (line 174), and between the add of line 93 and the eviction, no
\* resident is in the sequences of two hospitals or twice in one.
C17_OneHospitalPerResident == HRHeldOnce(matching)

\* hr_hospital_optimal is between lines 172 and 174 with a resident it has
\* just taken from another hospital: that hospital lists the resident and
\* has a free place, yet was not free at the last rescan.  The resident is
\* in no sequence now, and the lists passed were mutually consistent.
C17_Witness ==
    /\ pc = "ho_removed"
    /\ MutuallyConsistent(arg_hospital_prefs, arg_resident_prefs)
    /\ HRHolder(matching, resident) = None
    /\ \E h \in DOMAIN matching :
           /\ h # hospital
           /\ In(resident, hospital_prefs[h])
           /\ Len(matching[h]) < capacities[h]
           /\ ~In(h, free_hospitals)

\* Every matched pair is in both current lists.
SMMatchesLive ==
    \A k \in DOMAIN matching :
        matching[k] # None =>
            /\ In(matching[k], suitor_prefs[k])
            /\ In(k, reviewer_prefs[matching[k]])

HRMatchesLive ==
    \A h \in DOMAIN matching : \A i \in DOMAIN matching[h] :
        /\ In(matching[h][i], hospital_prefs[h])
        /\ In(h, resident_prefs[matching[h][i]])

\* C18. Matches are live entries: at the end of every loop iteration of
\* stable_marriage, hr_resident_optimal and hr_hospital_optimal on
\* consistent inputs, whenever X is matched to Y, Y is in X's current
\* (pruned) list and X is in Y's: pruning never removes a matched pair.
C18_MatchesLive ==
    /\ pc \in {"sm_loop", "sm_done"} => SMMatchesLive
    /\ pc \in {"ro_loop", "ho_loop", "hr_done"} => HRMatchesLive

\* hr_resident_optimal is at the head of its loop with a full hospital
\* whose list has been pruned below its worst match.
C18_Witness ==
    /\ pc = "ro_loop"
    /\ \E h \in DOMAIN matching :
           /\ Len(matching[h]) = capacities[h]
           /\ hospital_prefs[h] # arg_hospital_prefs[h]
           /\ hospital_prefs[h][Len(hospital_prefs[h])]
                  = LowestRanked(matching[h], arg_hospital_prefs[h])

\* C19. Mutual pruning consistency: on mutually consistent input lists,
\* at the end of every loop iteration of each of the three solvers the
\* current lists are mutually consistent (x is in y's list exactly when y
\* is in x's): whatever an iteration removes from one list it removes from
\* the other within the same iteration.
C19_ListsStayConsistent ==
    /\ pc \in {"sm_loop", "sm_done"} =>
           MutuallyConsistent(suitor_prefs, reviewer_prefs)
    /\ pc \in {"ro_loop", "ho_loop", "hr_done"} =>
           MutuallyConsistent(hospital_prefs, resident_prefs)

\* hr_resident_optimal is at the head of its loop after an iteration that
\* pruned a full hospital's list and the list of a resident held by
\* another hospital.
C19_Witness ==
    /\ pc = "ro_loop"
    /\ \E h \in DOMAIN matching : \E r \in DOMAIN resident_prefs :
           /\ h = hospital
           /\ Len(hospital_prefs[h]) < Len(arg_hospital_prefs[h])
           /\ In(h, arg_resident_prefs[r]) /\ ~In(h, resident_prefs[r])
           /\ HRHolder(matching, r) \notin {None, h}

\* An iteration of stable_marriage leaves every matched reviewer matched,
\* to the same suitor or to one it ranks higher in its list as passed.
SMTradesUp ==
    (pc = "sm_loop" /\ pc' = "sm_loop") =>
        \A r \in SMProposedTo :
            SMPartner(matching, r) # None =>
                /\ SMPartner(matching', r) # None
                /\ \/ SMPartner(matching', r) = SMPartner(matching, r)
                   \/ Prefers(SMArgList(r), SMPartner(matching', r),
                              SMPartner(matching, r))

\* Lines 163-172 of hr_hospital_optimal take from its hospital only the
\* chosen resident, and the hospital that has chosen it is one the
\* resident ranks higher in its list as passed.
HOTakesForBetter ==
    (pc = "ho_loop" /\ pc' = "ho_removed") =>
        \A r \in DOMAIN resident_prefs :
            HRHolder(matching, r) # None =>
                IF r = resident'
                THEN Prefers(arg_resident_prefs[r], hospital',
                             HRHolder(matching, r))
                ELSE HRHolder(matching', r) = HRHolder(matching, r)

\* Lines 174-185 place the chosen resident in the hospital that chose it
\* and move nobody else: at the end of the iteration it is assigned again.
HOPlaces ==
    (pc = "ho_removed" /\ pc' = "ho_loop") =>
        /\ HRHolder(matching', resident) = hospital
        /\ \A r \in DOMAIN resident_prefs :
               r # resident => HRHolder(matching', r) = HRHolder(matching, r)

\* C20. The proposed-to side only trades up: in stable_marriage a matched
\* reviewer is matched at the end of every later iteration and each change
\* of its partner is to a suitor it ranks strictly higher in its original
\* list; in hr_hospital_optimal an assigned resident is assigned at the end
\* of every later iteration and each change of its hospital is to one it
\* ranks strictly higher in its original list.
C20_TradesUp ==
    /\ [][SMTradesUp]_vars
    /\ [][HOTakesForBetter]_vars
    /\ [][HOPlaces]_vars

\* A reviewer has traded up: the suitor at the end of the queue was queued
\* again (it waits behind a suitor that comes later in insertion order),
\* and a reviewer it listed, and lists no more, holds a suitor the
\* reviewer ranks higher.
C20_Witness ==
    /\ pc = "sm_loop" /\ Len(suitors) >= 2
    /\ LET d == suitors[Len(suitors)]
       IN /\ Index(Keys(matching), d) < Index(Keys(matching), Head(suitors))
          /\ \E r \in SMProposedTo :
                 /\ SMPartner(matching, r) # None
                 /\ In(r, SMArgList(d)) /\ ~In(r, suitor_prefs[d])
                 /\ Prefers(SMArgList(r), SMPartner(matching, r), d)

====
